---- MODULE Spec2Model ----
(***************************************************************************)
(* A model of the CRDT primitives of client_utils (src/src/crdt.rs).       *)
(*                                                                         *)
(* Payload values of type T are the integers 1..MaxVal under their usual   *)
(* order (T: PartialOrd / Ord).  Timestamps are the integers 0..MaxTime.   *)
(* An Option<T> is a sequence of length at most one: <<>> is None and      *)
(* <<v>> is Some(v).  A BTreeMap is a function whose DOMAIN is the key     *)
(* set; it is iterated in ascending key order.                             *)
(*                                                                         *)
(* SpecRegister, SpecRegister3: two and three ExpiringFWWRegister replicas *)
(* under set, merge (of one another) and cleanup.                          *)
(* SpecSized, SpecSizedWide: one SizedFWWExpiringSet under insert, merge   *)
(* of any peer and cleanup, in the bounds below and one step wider.        *)
(***************************************************************************)
EXTENDS Integers, Sequences, FiniteSets, TLC

\* ---------------------------------------------------------------- bounds
MaxVal == 2
MaxTime == 1
\* SizedFWWExpiringSet: keys 1..MaxKey, written times 0..MaxWritten,
\* capacities 0..MaxCap, peers of at most MaxPeerLen members.
MaxKey == 3
MaxWritten == 1
MaxCap == 2
MaxPeerLen == 1
\* CrdtMap: keys 1..MaxMapKey.
MaxMapKey == 2
\* #[derive(CrdtContainer)]: a struct of MaxFields fields.
MaxFields == 2
\* Component::step: at most MaxCreatures visible creatures.
MaxCreatures == 2

Values == 1..MaxVal
Time == 0..MaxTime

\* i64::MAX and i64::MIN.  Only ever compared with timestamps, never added
\* to, so that any value above (below) every timestamp behaves alike.
I64_MAX == 2147483647
I64_MIN == -2147483647

Min(a, b) == IF a < b THEN a ELSE b
Max(a, b) == IF a > b THEN a ELSE b

\* The derived order of Option<T>: None sorts before every Some.
OptionLt(a, b) ==
    IF a = <<>> THEN b # <<>> ELSE b # <<>> /\ a[1] < b[1]

\* --------------------------------------------------- ExpiringFWWRegister
RegReplicas == {"a", "b"}
RegReplicas3 == {"a", "b", "c"}

VARIABLES
    reg,        \* reg[r]: the register of replica r: [value, written, expires]
    regSeen,    \* regSeen[r]: <<written, value>> of the least write replica r
                \* has applied or received since it was last empty, or <<>>
    regLast     \* the last operation on a register, with the state before it

VARIABLES
    sized,        \* the member map of the set: key -> <<written, expires>>
    sizedCap,     \* its capacity (the usize given to new)
    sizedSeeded,  \* TRUE while the set has only been built by insert
    sizedLast     \* the last operation on the set and its arguments

VARIABLES
    eset,       \* the ExpiringSet: element -> expires
    esetLast    \* the last operation on it, with the state before a cleanup

VARIABLES
    cmap,        \* the CrdtMap: key -> <<value, written>>
    cmapPolicy,  \* its merge policy P: "Lww" or "Fww"
    cmapLast     \* the last operation on it, and what a merge met

VARIABLES
    contTagged,  \* contTagged[i]: field i of the struct carries #[crdt]
    cont,        \* cont[r][i]: field i of the container of replica r
    contLast     \* the last call of a derived method and what it returned

VARIABLES
    stepStore,      \* the bytes load_store() returns (save_store's last)
    stepPublished,  \* the payload the agent exposes: None or Some(bytes)
    stepLast        \* the last call of step: its inputs and how it ended

VARIABLES
    gKind,   \* the CRDT primitive the agents gossip
    gInit,   \* gInit[i]: the broadcast state agent i started with
    gState,  \* gState[i]: the broadcast state in the memory of agent i
    gPub     \* gPub[i]: the state agent i exposed at the end of its last turn

VARIABLES
    emMaps,        \* ExplorableMap.maps: level_id -> [map, seen_items, stable]
    emUnexplored,  \* ExplorableMap.unexplored_locs (the frontier)
    emLast         \* the last update: the level, the turn, what was visible

VARIABLES
    navLoc,    \* the location of the actor, as actor() reports it
    navPath,   \* current_path: None (<<>>) or Some(path) (<<path>>)
    navLast    \* the last call of move_towards: arguments and outcome

VARIABLES
    searchIn,    \* the arguments of a call of astar that is followed step by
                 \* step, and whether the build checks for overflow
    searchState, \* its open_set, g_scores and came_from
    searchOut    \* <<"running">>, <<"panicked">>, or <<"returned", r>>

VARIABLES
    astarIn,   \* the arguments of a call of astar
    astarOut   \* <<>> before the call, then <<r>>: r is None (<<>>) or
               \* Some(path) (<<path>>)

regVars == <<reg, regSeen, regLast>>
sizedVars == <<sized, sizedCap, sizedSeeded, sizedLast>>
esetVars == <<eset, esetLast>>
cmapVars == <<cmap, cmapPolicy, cmapLast>>
contVars == <<contTagged, cont, contLast>>
stepVars == <<stepStore, stepPublished, stepLast>>
gossipVars == <<gKind, gInit, gState, gPub>>
emVars == <<emMaps, emUnexplored, emLast>>
astarVars == <<astarIn, astarOut>>
navVars == <<navLoc, navPath, navLast>>
searchVars == <<searchIn, searchState, searchOut>>
nonRegVars == <<searchVars, navVars, astarVars, emVars, gossipVars, sizedVars, esetVars, cmapVars, contVars, stepVars>>
nonSizedVars == <<searchVars, navVars, astarVars, emVars, gossipVars, regVars, esetVars, cmapVars, contVars, stepVars>>
nonEsetVars == <<searchVars, navVars, astarVars, emVars, gossipVars, regVars, sizedVars, cmapVars, contVars, stepVars>>
nonCmapVars == <<searchVars, navVars, astarVars, emVars, gossipVars, regVars, sizedVars, esetVars, contVars, stepVars>>
nonContVars == <<searchVars, navVars, astarVars, emVars, gossipVars, regVars, sizedVars, esetVars, cmapVars, stepVars>>
nonStepVars == <<searchVars, navVars, astarVars, emVars, regVars, sizedVars, esetVars, cmapVars, contVars, gossipVars>>
nonEmVars == <<searchVars, navVars, astarVars, regVars, sizedVars, esetVars, cmapVars, contVars, stepVars,
               gossipVars>>
nonAstarVars == <<searchVars, navVars, regVars, sizedVars, esetVars, cmapVars, contVars, stepVars,
                  gossipVars, emVars>>
nonNavVars == <<searchVars, astarVars, regVars, sizedVars, esetVars, cmapVars, contVars,
                stepVars, gossipVars, emVars>>
nonSearchVars == <<navVars, astarVars, regVars, sizedVars, esetVars, cmapVars,
                   contVars, stepVars, gossipVars, emVars>>
nonGossipVars == <<searchVars, navVars, astarVars, emVars, regVars, sizedVars, esetVars, cmapVars, contVars, stepVars>>
vars == <<reg, regSeen, regLast, sized, sizedCap, sizedSeeded, sizedLast,
          eset, esetLast, cmap, cmapPolicy, cmapLast,
          contTagged, cont, contLast,
          stepStore, stepPublished, stepLast,
          gKind, gInit, gState, gPub,
          emMaps, emUnexplored, emLast,
          astarIn, astarOut,
          navLoc, navPath, navLast,
          searchIn, searchState, searchOut>>

ExpiringFWWRegister_default ==
    [value |-> <<>>, written |-> I64_MAX, expires |-> I64_MIN]

\* A last-writer-wins set: a later write replaces an earlier one.
ExpiringFWWRegister_set_lww(self, value, now, expires) ==
    IF <<value>> = self.value
    THEN [self EXCEPT !.written = Min(self.written, now),
                      !.expires = Max(self.expires, expires)]
    ELSE IF \/ self.value = <<>>
            \/ now > self.written
            \/ (now = self.written /\ self.value # <<>> /\ value < self.value[1])
    THEN [value |-> <<value>>, written |-> now, expires |-> expires]
    ELSE self

ExpiringFWWRegister_set(self, value, now, expires) ==
    IF <<value>> = self.value
    THEN [self EXCEPT !.written = Min(self.written, now),
                      !.expires = Max(self.expires, expires)]
    ELSE IF \/ self.value = <<>>
            \/ now < self.written
            \/ (now = self.written /\ self.value # <<>> /\ value < self.value[1])
    THEN [value |-> <<value>>, written |-> now, expires |-> expires]
    ELSE self

ExpiringFWWRegister_merge(self, other) ==
    IF other.value # <<>>
    THEN IF \/ other.written < self.written
            \/ (other.written = self.written /\ OptionLt(other.value, self.value))
         THEN [value |-> other.value, written |-> other.written,
               expires |-> other.expires]
         ELSE IF self.value = other.value
         THEN [self EXCEPT !.written = Min(self.written, other.written),
                           !.expires = Max(self.expires, other.expires)]
         ELSE self
    ELSE self

\* A cleanup that keeps a value through the turn it expires in.
ExpiringFWWRegister_cleanup_late(self, now) ==
    IF now > self.expires THEN ExpiringFWWRegister_default ELSE self

ExpiringFWWRegister_cleanup(self, now) ==
    IF now >= self.expires THEN ExpiringFWWRegister_default ELSE self

\* The lexicographically least of two <<written, value>> pairs (<<>>: none).
LeastWrite(p, q) ==
    IF p = <<>> THEN q
    ELSE IF q = <<>> THEN p
    ELSE IF q[1] < p[1] \/ (q[1] = p[1] /\ q[2] < p[2]) THEN q ELSE p

RegNoOp ==
    [op |-> "none", self |-> "a", pre |-> ExpiringFWWRegister_default,
     value |-> 0, now |-> 0, expires |-> 0,
     other |-> ExpiringFWWRegister_default]

RegInit ==
    /\ reg = [r \in RegReplicas3 |-> ExpiringFWWRegister_default]
    /\ regSeen = [r \in RegReplicas3 |-> <<>>]
    /\ regLast = RegNoOp

RegisterSet(r, value, now, expires) ==
    /\ reg' = [reg EXCEPT ![r] = ExpiringFWWRegister_set(reg[r], value, now, expires)]
    /\ regSeen' = [regSeen EXCEPT ![r] = LeastWrite(regSeen[r], <<now, value>>)]
    /\ regLast' = [RegNoOp EXCEPT !.op = "set", !.self = r, !.pre = reg[r],
                                  !.value = value, !.now = now, !.expires = expires]
    /\ UNCHANGED nonRegVars

RegisterMerge(r, o) ==
    /\ reg' = [reg EXCEPT ![r] = ExpiringFWWRegister_merge(reg[r], reg[o])]
    /\ regSeen' = [regSeen EXCEPT ![r] = LeastWrite(regSeen[r], regSeen[o])]
    /\ regLast' = [RegNoOp EXCEPT !.op = "merge", !.self = r, !.pre = reg[r],
                                  !.other = reg[o]]
    /\ UNCHANGED nonRegVars

RegisterCleanup(r, now) ==
    /\ reg' = [reg EXCEPT ![r] = ExpiringFWWRegister_cleanup(reg[r], now)]
    /\ regSeen' = [regSeen EXCEPT ![r] = IF now >= reg[r].expires THEN <<>> ELSE @]
    /\ regLast' = [RegNoOp EXCEPT !.op = "cleanup", !.self = r, !.pre = reg[r],
                                  !.now = now]
    /\ UNCHANGED nonRegVars

RegNext(R) ==
    \/ \E r \in R, value \in Values, now \in Time, expires \in Time :
          RegisterSet(r, value, now, expires)
    \/ \E r \in R, o \in R : RegisterMerge(r, o)
    \/ \E r \in R, now \in Time : RegisterCleanup(r, now)

\* --------------------------------------------------- SizedFWWExpiringSet
EmptyMap == [k \in {} |-> <<0, 0>>]

MapInsert(m, k, v) == [x \in DOMAIN m \cup {k} |-> IF x = k THEN v ELSE m[x]]
MapRemove(m, k) == [x \in DOMAIN m \ {k} |-> m[x]]
MapLen(m) == Cardinality(DOMAIN m)
First(S) == CHOOSE x \in S : \A y \in S : x <= y

SizedFWWExpiringSet_new == EmptyMap

\* An insert that admits a new key into a set already at capacity.
SizedFWWExpiringSet_insert_over(self, cap, v, now, expires) ==
    IF v \in DOMAIN self
    THEN [self EXCEPT ![v] = <<self[v][1], expires>>]
    ELSE IF MapLen(self) <= cap
    THEN MapInsert(self, v, <<now, expires>>)
    ELSE self

SizedFWWExpiringSet_insert(self, cap, v, now, expires) ==
    IF v \in DOMAIN self
    THEN [self EXCEPT ![v] = <<self[v][1], expires>>]
    ELSE IF MapLen(self) < cap
    THEN MapInsert(self, v, <<now, expires>>)
    ELSE self

\* The scan of merge for the member to evict (crdt.rs lines 233-247), over
\* the local keys not yet visited, in ascending order.  oldest and
\* oldest_written are Options.
RECURSIVE EvictionScan(_, _, _, _, _, _)
EvictionScan(self, keys, other_value, other_written, oldest, oldest_written) ==
    IF keys = {} THEN oldest
    ELSE
        LET local_value == First(keys)
            local_written == self[local_value][1]
            rest == keys \ {local_value}
        IN  IF \/ local_written > other_written
               \/ (local_written = other_written /\ local_value > other_value)
            THEN IF oldest_written # <<>>
                 THEN IF oldest_written[1] < local_written
                      THEN EvictionScan(self, rest, other_value, other_written,
                                        <<local_value>>, <<oldest_written[1]>>)
                      ELSE EvictionScan(self, rest, other_value, other_written,
                                        oldest, oldest_written)
                 ELSE EvictionScan(self, rest, other_value, other_written,
                                   <<local_value>>, <<local_written>>)
            ELSE EvictionScan(self, rest, other_value, other_written,
                              oldest, oldest_written)

\* A merge step that admits the peer's entry without evicting a member.
MergeEntry_no_evict(self, cap, other_value, other_written, other_expires) ==
    IF other_value \in DOMAIN self
    THEN [self EXCEPT ![other_value] =
              <<Min(other_written, self[other_value][1]),
                Max(other_expires, self[other_value][2])>>]
    ELSE IF MapLen(self) < cap
    THEN MapInsert(self, other_value, <<other_written, other_expires>>)
    ELSE
        LET oldest == EvictionScan(self, DOMAIN self, other_value,
                                   other_written, <<>>, <<>>)
        IN  IF oldest # <<>>
            THEN MapInsert(self, other_value, <<other_written, other_expires>>)
            ELSE self

\* One iteration of the loop of merge: the peer's entry other_value ->
\* <<other_written, other_expires>> meets self.
MergeEntry(self, cap, other_value, other_written, other_expires) ==
    IF other_value \in DOMAIN self
    THEN [self EXCEPT ![other_value] =
              <<Min(other_written, self[other_value][1]),
                Max(other_expires, self[other_value][2])>>]
    ELSE IF MapLen(self) < cap
    THEN MapInsert(self, other_value, <<other_written, other_expires>>)
    ELSE
        LET oldest == EvictionScan(self, DOMAIN self, other_value,
                                   other_written, <<>>, <<>>)
        IN  IF oldest # <<>>
            THEN MapInsert(MapRemove(self, oldest[1]), other_value,
                           <<other_written, other_expires>>)
            ELSE self

RECURSIVE MergeLoop(_, _, _, _)
MergeLoop(self, cap, other, keys) ==
    IF keys = {} THEN self
    ELSE LET k == First(keys)
         IN  MergeLoop(MergeEntry(self, cap, k, other[k][1], other[k][2]),
                       cap, other, keys \ {k})

SizedFWWExpiringSet_merge(self, cap, other) ==
    MergeLoop(self, cap, other, DOMAIN other)

\* A cleanup that keeps a member through the turn it expires in.
SizedFWWExpiringSet_cleanup_late(self, now) ==
    [k \in {x \in DOMAIN self : self[x][2] >= now} |-> self[k]]

SizedFWWExpiringSet_cleanup(self, now) ==
    [k \in {x \in DOMAIN self : self[x][2] > now} |-> self[k]]

\* Every member map a peer replica can hold after new(n) and insert calls
\* with keys in K, times in W and expiries in E: at most n members.
SizedStates(K, W, E, n) ==
    UNION {[D -> W \X E] : D \in {S \in SUBSET K : Cardinality(S) <= n}}

\* removed: how many members the operation took out of the set.
SizedNoOp == [op |-> "none", key |-> 0, now |-> 0, removed |-> 0]

SizedInit(caps) ==
    /\ sized = SizedFWWExpiringSet_new
    /\ sizedCap \in caps
    /\ sizedSeeded = TRUE
    /\ sizedLast = SizedNoOp

SizedInsert(v, now, expires) ==
    /\ sized' = SizedFWWExpiringSet_insert(sized, sizedCap, v, now, expires)
    /\ sizedLast' = [SizedNoOp EXCEPT !.op = "insert", !.key = v]
    /\ UNCHANGED <<sizedCap, sizedSeeded>>
    /\ UNCHANGED nonSizedVars

\* self.merge(&other).  The peer is drawn from SizedStates: each of its
\* member maps is what a replica made by new(n) holds after insert calls.
SizedMerge(other) ==
    /\ sized' = SizedFWWExpiringSet_merge(sized, sizedCap, other)
    /\ sizedLast' = [SizedNoOp EXCEPT !.op = "merge"]
    /\ sizedSeeded' = FALSE
    /\ UNCHANGED sizedCap
    /\ UNCHANGED nonSizedVars

SizedCleanup(now) ==
    /\ sized' = SizedFWWExpiringSet_cleanup(sized, now)
    /\ sizedLast' = [SizedNoOp EXCEPT !.op = "cleanup", !.now = now,
                                      !.removed = MapLen(sized) - MapLen(sized')]
    /\ sizedSeeded' = FALSE
    /\ UNCHANGED sizedCap
    /\ UNCHANGED nonSizedVars

\* d widens every bound of the set by d.
SizedKeys(d) == 1..(MaxKey + d)
SizedWritten(d) == 0..(MaxWritten + d)
\* Two expiry times, and cleanup times before, at, between and after them.
SizedExpires(d) == (MaxWritten + d)..(MaxWritten + 1 + d)
SizedNow(d) == 0..(MaxWritten + 2 + d)
SizedCaps(d) == 0..(MaxCap + d)
SizedPeers0 ==
    SizedStates(SizedKeys(0), SizedWritten(0), SizedExpires(0), MaxPeerLen)
SizedPeers1 ==
    SizedStates(SizedKeys(1), SizedWritten(1), SizedExpires(1), MaxPeerLen + 1)
SizedPeers(d) == IF d = 0 THEN SizedPeers0 ELSE SizedPeers1

SizedNext(d) ==
    \/ \E v \in SizedKeys(d), now \in SizedWritten(d), expires \in SizedExpires(d) :
          SizedInsert(v, now, expires)
    \/ \E other \in SizedPeers(d) : SizedMerge(other)
    \/ \E now \in SizedNow(d) : SizedCleanup(now)

\* ------------------------------- GrowOnlySet, ExpiringSet, CrdtMap: merge
GrowOnlySet_merge(self, other) == self \cup other

RECURSIVE ExpiringSetMergeLoop(_, _, _)
ExpiringSetMergeLoop(self, other, keys) ==
    IF keys = {} THEN self
    ELSE LET v == First(keys)
             e == other[v]
             next == IF v \in DOMAIN self
                     THEN IF e > self[v] THEN [self EXCEPT ![v] = e] ELSE self
                     ELSE MapInsert(self, v, e)
         IN  ExpiringSetMergeLoop(next, other, keys \ {v})

ExpiringSet_merge(self, other) == ExpiringSetMergeLoop(self, other, DOMAIN other)

\* A CrdtMap entry is <<value, written>>.
RECURSIVE CrdtMapLwwLoop(_, _, _)
CrdtMapLwwLoop(self, other, keys) ==
    IF keys = {} THEN self
    ELSE LET k == First(keys)
             v == other[k][1]
             written == other[k][2]
             next == IF k \in DOMAIN self
                     THEN IF \/ self[k][2] < written
                             \/ (self[k][2] = written /\ self[k][1] < v)
                          THEN [self EXCEPT ![k] = <<v, written>>]
                          ELSE self
                     ELSE MapInsert(self, k, <<v, written>>)
         IN  CrdtMapLwwLoop(next, other, keys \ {k})

\* A merge that only adds the keys self lacks.
CrdtMap_merge_keep_local(self, other) ==
    [k \in DOMAIN self \cup DOMAIN other |->
        IF k \in DOMAIN self THEN self[k] ELSE other[k]]

CrdtMap_merge_Lww(self, other) == CrdtMapLwwLoop(self, other, DOMAIN other)

RECURSIVE CrdtMapFwwLoop(_, _, _)
CrdtMapFwwLoop(self, other, keys) ==
    IF keys = {} THEN self
    ELSE LET k == First(keys)
             v == other[k][1]
             written == other[k][2]
             next == IF k \in DOMAIN self
                     THEN IF \/ self[k][2] > written
                             \/ (self[k][2] = written /\ self[k][1] > v)
                          THEN [self EXCEPT ![k] = <<v, written>>]
                          ELSE self
                     ELSE MapInsert(self, k, <<v, written>>)
         IN  CrdtMapFwwLoop(next, other, keys \ {k})

CrdtMap_merge_Fww(self, other) == CrdtMapFwwLoop(self, other, DOMAIN other)

\* Every map from a subset of K to R.
Maps(K, R) == UNION {[D -> R] : D \in SUBSET K}

\* ------------------------------------------------------------ ExpiringSet
ExpiringSet_insert(self, v, expires) == MapInsert(self, v, expires)

ExpiringSet_cleanup(self, now) ==
    [k \in {x \in DOMAIN self : self[x] < now} |-> self[k]]

\* Elements are Values; expiry and cleanup times run one past MaxTime.
EsetTime == 0..(MaxTime + 1)
EsetPeers == Maps(Values, EsetTime)

EsetNoOp == [op |-> "none", key |-> 0, now |-> 0, pre |-> EmptyMap]

EsetInit ==
    /\ eset = EmptyMap
    /\ esetLast = EsetNoOp

EsetInsert(v, expires) ==
    /\ eset' = ExpiringSet_insert(eset, v, expires)
    /\ esetLast' = [EsetNoOp EXCEPT !.op = "insert", !.key = v]
    /\ UNCHANGED nonEsetVars

EsetMerge(other) ==
    /\ eset' = ExpiringSet_merge(eset, other)
    /\ esetLast' = [EsetNoOp EXCEPT !.op = "merge", !.pre = eset]
    /\ UNCHANGED nonEsetVars

EsetCleanup(now) ==
    /\ eset' = ExpiringSet_cleanup(eset, now)
    /\ esetLast' = [EsetNoOp EXCEPT !.op = "cleanup", !.now = now, !.pre = eset]
    /\ UNCHANGED nonEsetVars

EsetNext ==
    \/ \E v \in Values, expires \in EsetTime : EsetInsert(v, expires)
    \/ \E other \in EsetPeers : EsetMerge(other)
    \/ \E now \in EsetTime : EsetCleanup(now)

\* ---------------------------------------------------------------- CrdtMap
CrdtMap_insert(self, k, v, now) == MapInsert(self, k, <<v, now>>)

CrdtMap_merge(policy, self, other) ==
    IF policy = "Lww" THEN CrdtMap_merge_Lww(self, other)
    ELSE CrdtMap_merge_Fww(self, other)

\* Every map from at most n keys of K to R.
MapsUpTo(K, R, n) ==
    UNION {[D -> R] : D \in {S \in SUBSET K : Cardinality(S) <= n}}

CmapKeys == 1..MaxMapKey
CmapPeers == MapsUpTo(CmapKeys, Values \X Time, MaxPeerLen)

\* tie: the merged peer held a key of self with the same written time and
\* another value.
CmapNoOp == [op |-> "none", tie |-> FALSE]

CmapInit(policies) ==
    /\ cmap = EmptyMap
    /\ cmapPolicy \in policies
    /\ cmapLast = CmapNoOp

CmapInsert(k, v, now) ==
    /\ cmap' = CrdtMap_insert(cmap, k, v, now)
    /\ cmapLast' = [CmapNoOp EXCEPT !.op = "insert"]
    /\ UNCHANGED cmapPolicy
    /\ UNCHANGED nonCmapVars

CmapMerge(other) ==
    /\ cmap' = CrdtMap_merge(cmapPolicy, cmap, other)
    /\ cmapLast' =
          [op |-> "merge",
           tie |-> \E k \in DOMAIN cmap \cap DOMAIN other :
                      cmap[k][2] = other[k][2] /\ cmap[k][1] # other[k][1]]
    /\ UNCHANGED cmapPolicy
    /\ UNCHANGED nonCmapVars

CmapNext ==
    \/ \E k \in CmapKeys, v \in Values, now \in Time : CmapInsert(k, v, now)
    \/ \E other \in CmapPeers : CmapMerge(other)

\* ------------------------------------------------ #[derive(CrdtContainer)]
\* The struct has the fields 1..MaxFields in declaration order, each an
\* ExpiringFWWRegister.  A field's merge is the register's, except that the
\* Crdt trait lets a field type return an error: failing is the set of
\* fields whose merge returns Err on this call, and partial tells whether
\* such a field had merged before it failed.
ContFields == 1..MaxFields

\* The derived merge from field i on: self.f.merge(&other.f)? for each
\* tagged field, then Ok(()).  calls lists the fields whose merge was called;
\* result is 0 for Ok(()) and i for the error of field i.
RECURSIVE CrdtContainer_merge_from(_, _, _, _, _, _, _)
CrdtContainer_merge_from(self, tagged, other, failing, partial, i, calls) ==
    IF i > MaxFields THEN [fields |-> self, calls |-> calls, result |-> 0]
    ELSE IF ~tagged[i]
    THEN CrdtContainer_merge_from(self, tagged, other, failing, partial, i + 1, calls)
    ELSE LET merged == [self EXCEPT ![i] = ExpiringFWWRegister_merge(self[i], other[i])]
         IN  IF i \in failing
             THEN [fields |-> IF partial THEN merged ELSE self,
                   calls |-> Append(calls, i), result |-> i]
             ELSE CrdtContainer_merge_from(merged, tagged, other, failing, partial,
                                           i + 1, Append(calls, i))

\* A derived merge that carries on after a field's error and returns Ok(()).
CrdtContainer_merge_all(self, tagged, other, failing, partial) ==
    [fields |-> [i \in ContFields |->
                    IF tagged[i] /\ (i \notin failing \/ partial)
                    THEN ExpiringFWWRegister_merge(self[i], other[i])
                    ELSE self[i]],
     calls |-> SelectSeq([i \in ContFields |-> i], LAMBDA i : tagged[i]),
     result |-> 0]

CrdtContainer_merge(self, tagged, other, failing, partial) ==
    CrdtContainer_merge_from(self, tagged, other, failing, partial, 1, <<>>)

\* The derived cleanup: self.f.cleanup(now) for each tagged field.
CrdtContainer_cleanup(self, tagged, now) ==
    [i \in ContFields |->
        IF tagged[i] THEN ExpiringFWWRegister_cleanup(self[i], now) ELSE self[i]]

\* The register contents a field starts with: empty, an early write and a
\* later write of another value.
FieldSamples ==
    {ExpiringFWWRegister_default,
     ExpiringFWWRegister_set(ExpiringFWWRegister_default, 1, 0, 1),
     ExpiringFWWRegister_set(ExpiringFWWRegister_default, 2, 1, 2)}

ContNoOp == [op |-> "none", self |-> "a", other |-> "a", failing |-> {},
             calls |-> <<>>, result |-> 0, now |-> 0]

ContInit(tags) ==
    /\ contTagged \in tags
    /\ cont \in [RegReplicas -> [ContFields -> FieldSamples]]
    /\ contLast = ContNoOp

ContIdle ==
    /\ contTagged = [i \in ContFields |-> TRUE]
    /\ cont = [r \in RegReplicas |-> [i \in ContFields |-> ExpiringFWWRegister_default]]
    /\ contLast = ContNoOp

ContainerMerge(r, o, failing, partial) ==
    LET res == CrdtContainer_merge(cont[r], contTagged, cont[o], failing, partial)
    IN  /\ cont' = [cont EXCEPT ![r] = res.fields]
        /\ contLast' = [ContNoOp EXCEPT !.op = "merge", !.self = r, !.other = o,
                                         !.failing = failing,
                                         !.calls = res.calls, !.result = res.result]
        /\ UNCHANGED contTagged
        /\ UNCHANGED nonContVars

ContainerCleanup(r, now) ==
    /\ cont' = [cont EXCEPT ![r] = CrdtContainer_cleanup(cont[r], contTagged, now)]
    /\ contLast' = [ContNoOp EXCEPT !.op = "cleanup", !.self = r, !.now = now]
    /\ UNCHANGED contTagged
    /\ UNCHANGED nonContVars

ContNext ==
    \/ \E failing \in SUBSET ContFields, partial \in BOOLEAN :
          ContainerMerge("a", "b", failing, partial)
    \/ \E now \in Time : ContainerCleanup("a", now)

\* -------------------------------------------------------- Component::step
\* The memory S of the component is its broadcast state B, here an
\* ExpiringFWWRegister.  Bytes are either the bincode encoding of a B or
\* bytes that do not decode as one.
Serialize(b) == [valid |-> TRUE, state |-> b]
Garbage == [valid |-> FALSE, state |-> ExpiringFWWRegister_default]
\* bincode::deserialize: <<b>> is Ok(b), <<>> is Err.
Deserialize(bytes) == IF bytes.valid THEN <<bytes.state>> ELSE <<>>

\* The payloads in flight: undecodable bytes and two written registers.
Payloads ==
    {Garbage} \cup
    {Serialize(b) : b \in FieldSamples \ {ExpiringFWWRegister_default}}
\* A visible creature: its faction and its broadcast (None or Some(bytes)).
Creatures ==
    [faction : {"own", "other"}, broadcast : {<<>>} \cup {<<p>> : p \in Payloads}]
CreatureLists == UNION {[1..n -> Creatures] : n \in 0..MaxCreatures}

\* The loop over visible_creatures() from creature i on.  failing is the
\* set of creatures whose payload makes B::merge return Err: the unwrap()
\* then panics.
RECURSIVE GossipLoop(_, _, _, _)
GossipLoop(broadcast, creatures, failing, i) ==
    IF i > Len(creatures) THEN [panicked |-> FALSE, broadcast |-> broadcast]
    ELSE LET creature == creatures[i]
             other == IF creature.broadcast = <<>> THEN <<>>
                      ELSE Deserialize(creature.broadcast[1])
         IN  IF creature.faction = "own" /\ other # <<>>
             THEN IF i \in failing
                  THEN [panicked |-> TRUE, broadcast |-> broadcast]
                  ELSE GossipLoop(ExpiringFWWRegister_merge(broadcast, other[1]),
                                  creatures, failing, i + 1)
             ELSE GossipLoop(broadcast, creatures, failing, i + 1)

\* A gossip loop that merges the decodable payload of any creature.
RECURSIVE GossipLoop_any_faction(_, _, _, _)
GossipLoop_any_faction(broadcast, creatures, failing, i) ==
    IF i > Len(creatures) THEN [panicked |-> FALSE, broadcast |-> broadcast]
    ELSE LET creature == creatures[i]
             other == IF creature.broadcast = <<>> THEN <<>>
                      ELSE Deserialize(creature.broadcast[1])
         IN  IF other # <<>>
             THEN GossipLoop_any_faction(
                      ExpiringFWWRegister_merge(broadcast, other[1]),
                      creatures, failing, i + 1)
             ELSE GossipLoop_any_faction(broadcast, creatures, failing, i + 1)

Gossip_any_faction(memory, creatures, failing) ==
    GossipLoop_any_faction(memory, creatures, failing, 1)

\* for (_, creature) in visible_creatures() { ... }
Gossip(memory, creatures, failing) == GossipLoop(memory, creatures, failing, 1)

\* step: the store and the exposed payload it leaves.  A panic leaves both
\* as they were and returns no command.
Component_step(store, published, creatures, turn, failing) ==
    LET loaded == Deserialize(store)
        memory == IF loaded # <<>> THEN loaded[1] ELSE ExpiringFWWRegister_default
        merged == Gossip(memory, creatures, failing)
        broadcast == ExpiringFWWRegister_cleanup(merged.broadcast, turn)
    IN  IF merged.panicked
        THEN [outcome |-> "panicked", store |-> store, published |-> published]
        ELSE [outcome |-> "command", store |-> Serialize(broadcast),
              published |-> <<Serialize(broadcast)>>]

\* The states decoded from the payloads of the creatures of the actor's
\* faction that expose a payload that decodes, in order of appearance.
Eligible(creatures) ==
    LET ok(c) == /\ c.faction = "own"
                 /\ c.broadcast # <<>>
                 /\ Deserialize(c.broadcast[1]) # <<>>
        kept == SelectSeq(creatures, ok)
    IN  [i \in 1..Len(kept) |-> Deserialize(kept[i].broadcast[1])[1]]

StepNoOp == [op |-> "none", outcome |-> "none", turn |-> 0, loaded |-> <<>>,
             eligible |-> <<>>, skipped |-> 0]

StepInit ==
    /\ stepStore \in Payloads
    /\ stepPublished = <<>>
    /\ stepLast = StepNoOp

StepIdle ==
    /\ stepStore = Garbage
    /\ stepPublished = <<>>
    /\ stepLast = StepNoOp

ComponentStep(creatures, turn, failing) ==
    LET res == Component_step(stepStore, stepPublished, creatures, turn, failing)
        eligible == Eligible(creatures)
    IN  /\ stepStore' = res.store
        /\ stepPublished' = res.published
        /\ stepLast' = [op |-> "step", outcome |-> res.outcome, turn |-> turn,
                         loaded |-> Deserialize(stepStore),
                         eligible |-> eligible,
                         skipped |-> Len(creatures) - Len(eligible)]
        /\ UNCHANGED nonStepVars

\* get_game_state().turn: before, at and after the expiry of a payload.
StepTurns == 0..(MaxTime + 1)

\* Every merge returns Ok(()), as the merge of every Crdt of the crate does.
StepNext ==
    \E creatures \in CreatureLists, turn \in StepTurns :
        ComponentStep(creatures, turn, {})

\* B::merge may return Err, as the Crdt trait allows.
StepNextFallible ==
    \E creatures \in CreatureLists, turn \in StepTurns,
       failing \in SUBSET (1..MaxCreatures) :
        ComponentStep(creatures, turn, failing)

\* ----------------------------------------------------------------- gossip
\* Three agents of one faction on a line: a and c never see each other, b
\* sees both.  Each turn of an agent is the gossip phase of Component::step
\* on the payloads of the neighbours it sees, in the order it sees them.
\* The agents make no local writes, and every cleanup time is before every
\* expiry held.
Agents == RegReplicas3
Neighbours(i) == IF i = "b" THEN {"a", "c"} ELSE {"b"}
\* The game turn of every step: before every expiry held.
GossipTurns == {1}
GossipKinds == {"register", "grow", "eset", "sized", "lww", "fww"}

\* Every order of every subset of the neighbours of i.
VisibleLists(i) ==
    {vis \in UNION {[1..n -> Neighbours(i)] : n \in 0..Cardinality(Neighbours(i))} :
        \A x, y \in DOMAIN vis : x # y => vis[x] # vis[y]}

\* The states an agent may start with.
GossipSamples(kind) ==
    CASE kind = "register" ->
            {ExpiringFWWRegister_default,
             ExpiringFWWRegister_set(ExpiringFWWRegister_default, 1, 0, 2),
             ExpiringFWWRegister_set(ExpiringFWWRegister_default, 2, 1, 3),
             ExpiringFWWRegister_set(ExpiringFWWRegister_default, 1, 1, 3)}
      [] kind = "grow" -> SUBSET {1, 2}
      [] kind = "eset" ->
            {EmptyMap, (1 :> 2), (1 :> 3), (2 :> 2)}
      [] kind = "sized" ->
            {EmptyMap, (1 :> <<0, 2>>), (2 :> <<1, 2>>), (3 :> <<1, 3>>),
             (2 :> <<0, 3>>) @@ (3 :> <<0, 2>>)}
      [] OTHER ->
            {EmptyMap, (1 :> <<1, 0>>), (1 :> <<2, 0>>), (1 :> <<1, 1>>),
             (2 :> <<1, 0>>)}

\* B::merge and B::cleanup for the primitive gossiped; a sized set has
\* capacity MaxCap on every agent.
GossipMerge_none(kind, self, other) == self

GossipMerge(kind, self, other) ==
    CASE kind = "register" -> ExpiringFWWRegister_merge(self, other)
      [] kind = "grow" -> GrowOnlySet_merge(self, other)
      [] kind = "eset" -> ExpiringSet_merge(self, other)
      [] kind = "sized" -> SizedFWWExpiringSet_merge(self, MaxCap, other)
      [] kind = "lww" -> CrdtMap_merge_Lww(self, other)
      [] OTHER -> CrdtMap_merge_Fww(self, other)

GossipCleanup(kind, self, now) ==
    CASE kind = "register" -> ExpiringFWWRegister_cleanup(self, now)
      [] kind = "eset" -> ExpiringSet_cleanup(self, now)
      [] kind = "sized" -> SizedFWWExpiringSet_cleanup(self, now)
      [] OTHER -> self

\* broadcast.merge(&other) for each neighbour seen, in order.
RECURSIVE GossipFold(_, _, _, _)
GossipFold(kind, broadcast, pub, vis) ==
    IF vis = <<>> THEN broadcast
    ELSE LET merge == [b \in {broadcast} |-> GossipMerge(kind, b, pub[Head(vis)])]
         IN  GossipFold(kind, merge[broadcast], pub, Tail(vis))

GossipInit ==
    /\ gKind \in GossipKinds
    /\ gInit \in [Agents -> GossipSamples(gKind)]
    /\ gState = gInit
    /\ gPub = gInit

GossipIdle ==
    /\ gKind = "grow"
    /\ gInit = [i \in Agents |-> {}]
    /\ gState = gInit
    /\ gPub = gInit

\* A turn of agent i seeing the neighbours vis at game turn `turn`.
GossipStep(i, vis, turn) ==
    \E merged \in {GossipFold(gKind, gState[i], gPub, vis)} :
      \E broadcast \in {GossipCleanup(gKind, merged, turn)} :
        /\ gState' = [gState EXCEPT ![i] = broadcast]
        /\ gPub' = [gPub EXCEPT ![i] = broadcast]
        /\ UNCHANGED <<gKind, gInit>>
        /\ UNCHANGED nonGossipVars

GossipNext ==
    \E i \in Agents : \E vis \in VisibleLists(i), turn \in GossipTurns :
        GossipStep(i, vis, turn)

\* A turn of i in which it sees j.
GossipSees(i, j) ==
    \E vis \in VisibleLists(i), turn \in GossipTurns :
        /\ \E x \in DOMAIN vis : vis[x] = j
        /\ GossipStep(i, vis, turn)

\* Every agent keeps taking turns and every visibility edge recurs.
GossipFair ==
    \A i \in Agents : \A j \in Neighbours(i) : WF_vars(GossipSees(i, j))

\* ----------------------------------------------------------- ExplorableMap
\* A Loc is <<x, y>>.  The tiles the host can show are those of a corridor;
\* the frontier also holds their neighbours beside and beyond it.
EmTiles == {<<0, 0>>, <<1, 0>>}
EmLevels == {1}
\* item_at(loc): None or Some(item) with item.name = "key".
EmItems == {<<>>, <<"key">>}

\* for dx in -1..2 { for dy in -1..2 { ... } }: the nine locs around loc,
\* loc itself among them.
Around(loc) == {<<loc[1] + dx, loc[2] + dy>> : dx \in -1..1, dy \in -1..1}

\* visible_tiles(): tiles in the order the host lists them, each loc once.
\* A tile is [loc, passable, item]; item is item_at(loc).
VisibleTiles ==
    [loc : EmTiles, passable : {TRUE}, item : EmItems] \cup
    [loc : EmTiles, passable : {FALSE}, item : {<<>>}]
VisibleTileLists ==
    {tiles \in UNION {[1..n -> VisibleTiles] : n \in 0..Cardinality(EmTiles)} :
        \A i, j \in DOMAIN tiles : i # j => tiles[i].loc # tiles[j].loc}

\* The body of the loop of update for the tiles from i on.
RECURSIVE UpdateLoop(_, _, _, _, _, _)
UpdateLoop(map, seen_items, unexplored_locs, tiles, now, i) ==
    IF i > Len(tiles)
    THEN [map |-> map, seen_items |-> seen_items, unexplored_locs |-> unexplored_locs]
    ELSE LET loc == tiles[i].loc
             map1 == CrdtMap_insert(map, loc, tiles[i].passable, now)
             removed == unexplored_locs \ {loc}
         IN  IF tiles[i].passable
             THEN UpdateLoop(map1,
                             CrdtMap_insert(seen_items, loc, tiles[i].item, now),
                             removed \cup {n \in Around(loc) : n \notin DOMAIN map1},
                             tiles, now, i + 1)
             ELSE UpdateLoop(map1, seen_items, removed, tiles, now, i + 1)

\* An update that leaves the frontier alone when it inserts a tile.
ExplorableMap_update_keep_frontier(maps, unexplored_locs, level_id, stable, tiles, now) ==
    LET entry == IF level_id \in DOMAIN maps THEN maps[level_id]
                 ELSE [map |-> EmptyMap, seen_items |-> EmptyMap, stable |-> stable]
        done == UpdateLoop(entry.map, entry.seen_items, {}, tiles, now, 1)
        maps1 == MapInsert(maps, level_id,
                           [map |-> done.map, seen_items |-> done.seen_items,
                            stable |-> entry.stable])
    IN  [maps |-> maps1, unexplored_locs |-> unexplored_locs \cup done.unexplored_locs]

\* update: maps.entry(level_id).or_insert_with(...), the loop, then
\* maps.retain(current level or stable).
ExplorableMap_update(maps, unexplored_locs, level_id, stable, tiles, now) ==
    LET entry == IF level_id \in DOMAIN maps THEN maps[level_id]
                 ELSE [map |-> EmptyMap, seen_items |-> EmptyMap, stable |-> stable]
        done == UpdateLoop(entry.map, entry.seen_items, unexplored_locs, tiles, now, 1)
        maps1 == MapInsert(maps, level_id,
                           [map |-> done.map, seen_items |-> done.seen_items,
                            stable |-> entry.stable])
    IN  [maps |-> [id \in {x \in DOMAIN maps1 : x = level_id \/ maps1[x].stable}
                      |-> maps1[id]],
         unexplored_locs |-> done.unexplored_locs]

EmNoOp == [op |-> "none", level_id |-> 0, now |-> 0, tiles |-> <<>>]

EmInit ==
    /\ emMaps = EmptyMap
    /\ emUnexplored = {}
    /\ emLast = EmNoOp

\* Map::update with the game state and the visible tiles the host reports.
MapUpdate(level_id, stable, tiles, now) ==
    LET res == ExplorableMap_update(emMaps, emUnexplored, level_id, stable, tiles, now)
    IN  /\ emMaps' = res.maps
        /\ emUnexplored' = res.unexplored_locs
        /\ emLast' = [op |-> "update", level_id |-> level_id, now |-> now,
                       tiles |-> tiles]
        /\ UNCHANGED nonEmVars

\* game_state.level_is_stable: a level keeps the flag it showed first.
LevelIsStable(level_id) ==
    IF level_id \in DOMAIN emMaps THEN {emMaps[level_id].stable} ELSE BOOLEAN

EmNext ==
    \E level_id \in EmLevels, tiles \in VisibleTileLists, now \in Time :
        \E stable \in LevelIsStable(level_id) :
            MapUpdate(level_id, stable, tiles, now)

\* The derived orders of bool (false < true) and of Option<String> with
\* the one item name (None < Some).
BoolLess(a, b) == ~a /\ b
ItemLess(a, b) == a = <<>> /\ b # <<>>

\* The Lww merge of two CrdtMaps keyed by Loc; the loop handles each key of
\* other once, and no key depends on another.  values names the value type:
\* "bool" for the passability map, "item" for the last-seen-item map.
TileMap_merge(self, other, values) ==
    [k \in DOMAIN self \cup DOMAIN other |->
        IF k \notin DOMAIN other THEN self[k]
        ELSE IF k \notin DOMAIN self THEN other[k]
        ELSE IF \/ self[k][2] < other[k][2]
                \/ /\ self[k][2] = other[k][2]
                   /\ IF values = "bool"
                      THEN BoolLess(self[k][1], other[k][1])
                      ELSE ItemLess(self[k][1], other[k][1])
             THEN other[k]
             ELSE self[k]]

\* impl Crdt for ExplorableMap: merge, for every level that self holds and
\* other holds too, the passability maps and the last-seen-item maps.
ExplorableMap_merge(maps, other) ==
    [id \in DOMAIN maps |->
        IF id \in DOMAIN other
        THEN [map |-> TileMap_merge(maps[id].map, other[id].map, "bool"),
              seen_items |-> TileMap_merge(maps[id].seen_items,
                                           other[id].seen_items, "item"),
              stable |-> maps[id].stable]
        ELSE maps[id]]

\* The maps of a peer: one level with the tile beside the start of the
\* corridor, seen passable at turn 0, and no item.
EmPeerTiles == {<<0, 1>>}
EmPeers ==
    {[id \in {level_id} |->
        [map |-> MapInsert(EmptyMap, loc, <<TRUE, 0>>),
         seen_items |-> EmptyMap, stable |-> TRUE]] :
        level_id \in EmLevels, loc \in EmPeerTiles}

\* Crdt::merge with the map of a peer; the level of the game is that of
\* the last update.
MapMerge(other) ==
    /\ emMaps' = ExplorableMap_merge(emMaps, other)
    /\ emLast' = [op |-> "merge", level_id |-> emLast.level_id, now |-> 0,
                   tiles |-> <<>>]
    /\ UNCHANGED emUnexplored
    /\ UNCHANGED nonEmVars

EmNextMerge ==
    \/ \E level_id \in EmLevels, tiles \in VisibleTileLists, now \in Time :
          \E stable \in LevelIsStable(level_id) :
              MapUpdate(level_id, stable, tiles, now)
    \/ \E other \in EmPeers : MapMerge(other)

\* ------------------------------------------------------------------ astar
\* f32 scores.  A g score is a whole number of steps and penalties.  An f
\* score is <<g, d2>>, standing for g + sqrt(d2) with d2 the squared
\* distance to current_location; f scores are compared exactly.
AVOID_PENALTY == 10

\* The coordinates of a Loc are two's complement integers of CoordBits bits
\* (32 in the source, fewer here).  An addition that leaves the range wraps
\* around in a build without overflow checks and panics in a build with them.
CoordBits == 7
CoordMin == -(2 ^ (CoordBits - 1))
CoordMax == 2 ^ (CoordBits - 1) - 1

CoordSpan == 2 ^ CoordBits

AddOverflows(v, d) == v + d < CoordMin \/ v + d > CoordMax

WrappingAdd(v, d) ==
    IF AddOverflows(v, d) THEN ((v + d - CoordMin) % CoordSpan) + CoordMin
    ELSE v + d

\* distance(a, b) squared.
Distance2(a, b) ==
    LET dx == WrappingAdd(a[1], -b[1])
        dy == WrappingAdd(a[2], -b[2])
    IN  dx * dx + dy * dy

\* f[1] + sqrt(f[2]) < h[1] + sqrt(h[2])
FLess(f, h) ==
    LET d == h[1] - f[1]
        m == f[2]
        n == h[2]
    IN  IF m = n THEN 0 < d
        ELSE IF m > n
        THEN d > 0 /\ LET k == m - d * d - n
                      IN  k < 0 \/ k * k < 4 * d * d * n
        ELSE d >= 0 \/ LET k == n - d * d - m
                       IN  k > 0 /\ k * k > 4 * d * d * m

\* The derived Ord of Loc: by x, then by y.
LocLess(a, b) == a[1] < b[1] \/ (a[1] = b[1] /\ a[2] < b[2])

\* The order of the heap entries (f, loc).
EntryLess(e, o) ==
    FLess(e[1], o[1]) \/ (~FLess(o[1], e[1]) /\ LocLess(e[2], o[2]))

\* The eight locs around loc.
Neighbours8(loc) == Around(loc) \ {loc}

\* The eight neighboors that astar computes from loc, by wrapping additions.
AstarNeighbours(loc) ==
    {<<WrappingAdd(loc[1], dx), WrappingAdd(loc[2], dy)>> :
        dx \in -1..1, dy \in -1..1} \ {loc}

\* One of the additions loc.x + dx, loc.y + dy leaves the range.
NeighbourOverflows(loc) ==
    \E d \in {-1, 1} : AddOverflows(loc[1], d) \/ AddOverflows(loc[2], d)

Adjacent8(a, b) == a # b /\ b \in Around(a)

\* LocMap::get_loc(n).unwrap_or(true) && !blocked.contains_loc(n)
Expandable(explored_tiles, blocked, n) ==
    /\ (n \in DOMAIN explored_tiles => explored_tiles[n])
    /\ n \notin blocked

\* The path from current along came_from.
RECURSIVE ReconstructPath(_, _)
ReconstructPath(came_from, current) ==
    IF current \in DOMAIN came_from
    THEN <<came_from[current]>> \o ReconstructPath(came_from, came_from[current])
    ELSE <<>>

\* The entry that open_set.pop() takes: the least (f, loc).
HeapTop(open_set) ==
    CHOOSE e \in open_set : \A o \in open_set \ {e} : EntryLess(e, o)

\* The body of the while loop for a popped loc other than
\* current_location: the open set (rest is the heap after the pop), the g
\* scores and the came_from links after the neighboors of loc are handled.
AstarExpand(loc, rest, g_scores, came_from, current_location, explored_tiles, blocked, avoid) ==
    LET base_score == g_scores[loc] + 1
        score(n) == IF n \in avoid THEN base_score + AVOID_PENALTY
                    ELSE base_score
        better == {n \in AstarNeighbours(loc) :
                      /\ Expandable(explored_tiles, blocked, n)
                      /\ (n \in DOMAIN g_scores => score(n) < g_scores[n])}
        queued == {e[2] : e \in rest}
    IN  [open_set |-> rest \cup {<<<<score(n), Distance2(current_location, n)>>, n>> :
                                    n \in better \ queued},
         g_scores |-> [n \in DOMAIN g_scores \cup better |->
                          IF n \in better THEN score(n) ELSE g_scores[n]],
         came_from |-> [n \in DOMAIN came_from \cup better |->
                           IF n \in better THEN loc ELSE came_from[n]]]

\* The state of the search when astar enters the while loop.
AstarStart(current_location, goal) ==
    [open_set |-> {<<<<0, Distance2(current_location, goal)>>, goal>>},
     g_scores |-> [n \in {goal} |-> 0],
     came_from |-> [n \in {} |-> goal]]

\* The while loop of astar, run to its end.  open_set is the set of heap
\* entries <<f, loc>>.
RECURSIVE AstarLoop(_, _, _, _, _)
AstarLoop(search, current_location, explored_tiles, blocked, avoid) ==
    IF search.open_set = {} THEN <<>>
    ELSE
        LET top == HeapTop(search.open_set)
        IN  IF top[2] = current_location
            THEN <<ReconstructPath(search.came_from, top[2])>>
            ELSE AstarLoop(
                    AstarExpand(top[2], search.open_set \ {top}, search.g_scores,
                                search.came_from, current_location, explored_tiles,
                                blocked, avoid),
                    current_location, explored_tiles, blocked, avoid)

\* astar: None is <<>>, Some(path) is <<path>>.
Astar(current_location, goal, explored_tiles, blocked, avoid) ==
    AstarLoop(AstarStart(current_location, goal),
              current_location, explored_tiles, blocked, avoid)

\* The arena of the searches, and the ring of cells around it, which every
\* map given to astar records as impassable: the search stays in the arena.
NavArena == {<<x, y>> : x \in 0..3, y \in 0..1}
NavRing == UNION {Around(c) : c \in NavArena} \ NavArena

\* The LocMap of an arena whose cells in walls are known impassable; the
\* other cells of the arena have no map data.
WalledMap(walls) == [c \in walls \cup NavRing |-> FALSE]

\* A wider arena, searched from one corner to its far side with up to two
\* walls, nothing blocked and nothing avoided.
WideArena == {<<x, y>> : x \in 0..4, y \in 0..3}
WideRing == UNION {Around(c) : c \in WideArena} \ WideArena
WideGoals == {<<4, y>> : y \in 0..3}

SetsUpTo(S, n) == {T \in SUBSET S : Cardinality(T) <= n}

AstarInit ==
    /\ astarIn \in
          {[current_location |-> c, goal |-> g, explored_tiles |-> WalledMap(w),
            blocked |-> b, avoid |-> a] :
              c \in NavArena, g \in NavArena, w \in SetsUpTo(NavArena, 1),
              b \in SetsUpTo(NavArena, 1), a \in SetsUpTo(NavArena, 1)}
          \cup
          {[current_location |-> <<0, 0>>, goal |-> g,
            explored_tiles |-> [c \in w \cup WideRing |-> FALSE],
            blocked |-> {}, avoid |-> {}] :
              g \in WideGoals, w \in SetsUpTo(WideArena, 2)}
    /\ astarOut = <<>>

AstarIdle ==
    /\ astarIn = [current_location |-> <<0, 0>>, goal |-> <<0, 0>>,
                   explored_tiles |-> WalledMap({}), blocked |-> {}, avoid |-> {}]
    /\ astarOut = <<>>

AstarCall ==
    /\ astarOut = <<>>
    /\ astarOut' = <<Astar(astarIn.current_location, astarIn.goal,
                            astarIn.explored_tiles, astarIn.blocked, astarIn.avoid)>>
    /\ UNCHANGED astarIn
    /\ UNCHANGED nonAstarVars

AstarNext == AstarCall

\* ------------------------------------------------- astar, step by step
\* The cells around the cells of a region, all recorded as impassable.
FencedMap(region) ==
    [c \in UNION {Around(r) : r \in region} \ region |-> FALSE]

\* Two corridors of the same number of steps between (0, 0) and
\* (TentLength, 0): one straight, one over the point halfway up.
TentLength == 50
TentStraight == {<<x, 0>> : x \in 0..TentLength}
TentOver == {<<x, Min(x, TentLength - x)>> : x \in 0..TentLength}
TentAvoid == {<<3, 0>>, <<TentLength \div 2, 0>>, <<TentLength - 3, 0>>}

\* A strip of cells without map data that runs to the last column of the
\* coordinate range, and two cells next to the first column, which follow
\* the last one when an addition wraps around.
EdgeStrip ==
    {<<x, 0>> : x \in (CoordMax - 3)..CoordMax} \cup {<<CoordMin, 0>>, <<CoordMin + 1, 0>>}

\* A current location seven cells from the goal, enclosed by blocked cells,
\* on a grid without any map data; the goal is one cell from the last
\* column and the last row of the coordinate range.
EnclosedCurrent == <<CoordMax - 8, CoordMax - 8>>
EnclosedGoal == <<CoordMax - 1, CoordMax - 1>>
NoMap == [c \in {} |-> FALSE]

SearchInit ==
    /\ searchIn \in
          {[current_location |-> <<0, 0>>, goal |-> <<TentLength, 0>>,
            explored_tiles |-> FencedMap(TentStraight \cup TentOver),
            blocked |-> {}, avoid |-> {a}, overflow_checks |-> c] :
              a \in TentAvoid, c \in BOOLEAN}
          \cup
          {[current_location |-> <<CoordMax - 3, 0>>, goal |-> <<CoordMax - 1, 0>>,
            explored_tiles |-> FencedMap(EdgeStrip),
            blocked |-> b, avoid |-> {}, overflow_checks |-> c] :
              b \in {{}, {<<CoordMax - 2, 0>>}}, c \in BOOLEAN}
          \cup
          {[current_location |-> EnclosedCurrent, goal |-> EnclosedGoal,
            explored_tiles |-> NoMap, blocked |-> Neighbours8(EnclosedCurrent),
            avoid |-> {}, overflow_checks |-> TRUE]}
    /\ searchState = AstarStart(searchIn.current_location, searchIn.goal)
    /\ searchOut = <<"running">>

SearchIdle ==
    /\ searchIn = [current_location |-> <<0, 0>>, goal |-> <<0, 0>>,
                    explored_tiles |-> WalledMap({}), blocked |-> {}, avoid |-> {},
                    overflow_checks |-> FALSE]
    /\ searchState = AstarStart(<<0, 0>>, <<0, 0>>)
    /\ searchOut = <<"returned", <<<<>>>>>>

\* The pop finds current_location: Some(path) is returned.
SearchReturn ==
    /\ searchOut = <<"running">>
    /\ searchState.open_set # {}
    /\ HeapTop(searchState.open_set)[2] = searchIn.current_location
    /\ searchOut' = <<"returned",
                       <<ReconstructPath(searchState.came_from, searchIn.current_location)>>>>
    /\ UNCHANGED <<searchIn, searchState>>
    /\ UNCHANGED nonSearchVars

\* One pass of the while loop for another loc.
SearchExpand ==
    /\ searchOut = <<"running">>
    /\ searchState.open_set # {}
    /\ \E top \in {HeapTop(searchState.open_set)} :
          /\ top[2] # searchIn.current_location
          /\ ~(searchIn.overflow_checks /\ NeighbourOverflows(top[2]))
          /\ searchState' =
                AstarExpand(top[2], searchState.open_set \ {top}, searchState.g_scores,
                            searchState.came_from, searchIn.current_location,
                            searchIn.explored_tiles, searchIn.blocked, searchIn.avoid)
    /\ UNCHANGED <<searchIn, searchOut>>
    /\ UNCHANGED nonSearchVars

\* The pass computes a neighboor outside the coordinate range in a build
\* that checks for overflow.
SearchPanic ==
    /\ searchOut = <<"running">>
    /\ searchState.open_set # {}
    /\ \E top \in {HeapTop(searchState.open_set)} :
          /\ top[2] # searchIn.current_location
          /\ searchIn.overflow_checks
          /\ NeighbourOverflows(top[2])
    /\ searchOut' = <<"panicked">>
    /\ UNCHANGED <<searchIn, searchState>>
    /\ UNCHANGED nonSearchVars

\* The open set is empty: None is returned.
SearchFail ==
    /\ searchOut = <<"running">>
    /\ searchState.open_set = {}
    /\ searchOut' = <<"returned", <<>>>>
    /\ UNCHANGED <<searchIn, searchState>>
    /\ UNCHANGED nonSearchVars

SearchNext ==
    \/ SearchReturn
    \/ SearchExpand
    \/ SearchPanic
    \/ SearchFail

\* ----------------------------------------------------------- move_towards
\* path.iter().last()
LastLoc(path) == IF path = <<>> THEN <<>> ELSE <<path[Len(path)]>>

Crosses(path, locs) == \E i \in DOMAIN path : path[i] \in locs

\* astar_update_path with the avoid test left out.
AstarUpdatePath_blocked_only(path, current_location, goal, explored_tiles, blocked, avoid) ==
    IF path # <<>> /\ ~Crosses(path[1], blocked)
    THEN path
    ELSE Astar(current_location, goal, explored_tiles, blocked, avoid)

\* astar_update_path: the value of *path when it returns.
AstarUpdatePath(path, current_location, goal, explored_tiles, blocked, avoid) ==
    IF path # <<>>
    THEN IF Crosses(path[1], blocked \cup avoid)
         THEN Astar(current_location, goal, explored_tiles, blocked, avoid)
         ELSE path
    ELSE Astar(current_location, goal, explored_tiles, blocked, avoid)

\* move_towards: the path after astar_update_path, the path left in
\* *current_path, and the command (<<>> is None, <<loc>> is a Walk to loc).
\* walk tells whether find_action!(MicroAction::Walk) finds an action.
MoveTowardsResult(current_path, current_loc, level_map, blocked, avoid, loc, walk) ==
    LET checked == IF current_path # <<>> /\ LastLoc(current_path[1]) # <<loc>>
                   THEN <<>> ELSE current_path
        updated == AstarUpdatePath(checked, current_loc, loc, level_map, blocked, avoid)
    IN  IF updated # <<>> /\ updated[1] # <<>>
        THEN [updated |-> updated, path |-> <<Tail(updated[1])>>,
              command |-> IF walk THEN <<Head(updated[1])>> ELSE <<>>]
        ELSE [updated |-> updated, path |-> updated, command |-> <<>>]

\* The arguments of the calls: two goals, a wall that the map may record, a
\* cell that may be blocked and a cell that may be marked for avoidance.
NavGoals == {<<3, 0>>, <<0, 1>>}
NavWalls == {{}, {<<1, 0>>}}
NavBlocked == {{}, {<<2, 0>>}}
NavAvoid == {{}, {<<2, 1>>}}

NavNoOp == [op |-> "none"]

NavInit ==
    /\ navLoc \in NavArena
    /\ navPath = <<>>
    /\ navLast = NavNoOp

NavIdle ==
    /\ navLoc = <<0, 0>>
    /\ navPath = <<>>
    /\ navLast = NavNoOp

MoveTowards(loc, walls, blocked, avoid, walk) ==
    \E r \in {MoveTowardsResult(navPath, navLoc, WalledMap(walls), blocked, avoid, loc, walk)} :
        /\ navPath' = r.path
        /\ navLast' = [op |-> "move_towards", loc |-> loc, walls |-> walls,
                       blocked |-> blocked, avoid |-> avoid, walk |-> walk,
                       cached |-> navPath, updated |-> r.updated,
                       command |-> r.command]
        /\ UNCHANGED navLoc
        /\ UNCHANGED nonNavVars

\* Between two calls the host may move the actor to a cell next to it.
ActorMoves(to) ==
    /\ to \in Neighbours8(navLoc) \cap NavArena
    /\ navLoc' = to
    /\ navLast' = NavNoOp
    /\ UNCHANGED navPath
    /\ UNCHANGED nonNavVars

NavNext ==
    \/ \E loc \in NavGoals, walls \in NavWalls, blocked \in NavBlocked,
          avoid \in NavAvoid, walk \in BOOLEAN :
          MoveTowards(loc, walls, blocked, avoid, walk)
    \/ \E to \in NavArena : ActorMoves(to)

\* --------------------------------------------------------- specifications
\* The state of every component a specification leaves alone, g excepted.
Idle(g) ==
    /\ IF g = "register" THEN TRUE ELSE RegInit
    /\ IF g = "sized" THEN TRUE ELSE SizedInit({0})
    /\ IF g = "eset" THEN TRUE ELSE EsetInit
    /\ IF g = "cmap" THEN TRUE ELSE CmapInit({"Lww"})
    /\ IF g = "container" THEN TRUE ELSE ContIdle
    /\ IF g = "step" THEN TRUE ELSE StepIdle
    /\ IF g = "gossip" THEN TRUE ELSE GossipIdle
    /\ IF g = "map" THEN TRUE ELSE EmInit
    /\ IF g = "astar" THEN TRUE ELSE AstarIdle
    /\ IF g = "nav" THEN TRUE ELSE NavIdle
    /\ IF g = "search" THEN TRUE ELSE SearchIdle

InitRegister == RegInit /\ Idle("register")
InitSized == SizedInit(SizedCaps(0)) /\ Idle("sized")
InitSizedWide == SizedInit(SizedCaps(1)) /\ Idle("sized")
InitEset == EsetInit /\ Idle("eset")
InitCmap == CmapInit({"Lww", "Fww"}) /\ Idle("cmap")
InitContainer == ContInit([ContFields -> BOOLEAN]) /\ Idle("container")
InitStep == StepInit /\ Idle("step")
InitGossip == GossipInit /\ Idle("gossip")
InitMap == EmInit /\ Idle("map")
InitAstar == AstarInit /\ Idle("astar")
InitNav == NavInit /\ Idle("nav")
InitSearch == SearchInit /\ Idle("search")

RegNext2 == RegNext(RegReplicas)
RegNext3 == RegNext(RegReplicas3)
SizedNext0 == SizedNext(0)
SizedNext1 == SizedNext(1)

\* Two register replicas.
SpecRegister == InitRegister /\ [][RegNext2]_vars
\* Three register replicas.
SpecRegister3 == InitRegister /\ [][RegNext3]_vars
\* One sized set merging peers, every operation with any argument in bounds.
SpecSized == InitSized /\ [][SizedNext0]_vars
\* The same, one step wider in every bound.
SpecSizedWide == InitSizedWide /\ [][SizedNext1]_vars

\* One ExpiringSet under insert, merge of any peer and cleanup.
SpecEset == InitEset /\ [][EsetNext]_vars

\* One CrdtMap of either policy under insert and merge of any peer.
SpecCmap == InitCmap /\ [][CmapNext]_vars

\* A struct deriving CrdtContainer, with any choice of tagged fields, under
\* the derived cleanup and the derived merge of a peer.
SpecContainer == InitContainer /\ [][ContNext]_vars

\* One agent's turns, with any visible creatures; no merge fails.
SpecStep == InitStep /\ [][StepNext]_vars
\* The same with a broadcast type whose merge may fail.
SpecStepFallible == InitStep /\ [][StepNextFallible]_vars

\* Three agents gossiping one primitive, every visibility edge recurring.
SpecGossip == InitGossip /\ [][GossipNext]_vars /\ GossipFair

\* One ExplorableMap under update, with any visible tiles in any order.
SpecMap == InitMap /\ [][EmNext]_vars

\* Updates of an ExplorableMap and merges with the maps of peers.
SpecMapMerge == InitMap /\ [][EmNextMerge]_vars

\* One call of astar on any arguments in the arena.
SpecAstar == InitAstar /\ [][AstarNext]_vars

\* Calls of move_towards on one cached path, the actor moving in between.
SpecNav == InitNav /\ [][NavNext]_vars

\* One call of astar followed through its while loop, on long corridors and
\* at the edge of the coordinate range.
SpecSearch == InitSearch /\ [][SearchNext]_vars

\* ------------------------------------------------------ register claims

\* C1: ExpiringFWWRegister.merge is commutative: for any two replicas a and
\* b reachable through set/merge/cleanup, a.merge(b) and b.merge(a) leave
\* the two replicas with the same value, written and expires.
C1_MergeCommutative ==
    \A a, b \in RegReplicas :
        LET ab == ExpiringFWWRegister_merge(reg[a], reg[b])
            ba == ExpiringFWWRegister_merge(reg[b], reg[a])
        IN  /\ ab.value = ba.value
            /\ ab.written = ba.written
            /\ ab.expires = ba.expires

RegMerge3(x, y, z) ==
    ExpiringFWWRegister_merge(ExpiringFWWRegister_merge(x, y), z)

RegMerge3Right(x, y, z) ==
    ExpiringFWWRegister_merge(x, ExpiringFWWRegister_merge(y, z))

\* C2: for any three register replicas A, B, C, merging them in any order
\* and grouping yields the same final (value, written, expires).
C2_MergeAnyOrderAndGrouping ==
    \A x, y, z \in RegReplicas3 :
        (x # y /\ y # z /\ x # z) =>
            /\ RegMerge3(reg[x], reg[y], reg[z]) = RegMerge3(reg["a"], reg["b"], reg["c"])
            /\ RegMerge3Right(reg[x], reg[y], reg[z]) = RegMerge3(reg["a"], reg["b"], reg["c"])

\* C5: after any sequence of set and merge on an initially empty register,
\* with no cleanup expiring it in between, the visible value is the one with
\* the smallest written time among all writes applied directly or received
\* through merged replicas, the smallest by value among equal written times;
\* a later write never replaces an earlier one.
C5_EarliestWriteVisible ==
    /\ \A r \in RegReplicas :
          IF regSeen[r] = <<>>
          THEN reg[r].value = <<>>
          ELSE /\ reg[r].written = regSeen[r][1]
               /\ reg[r].value = <<regSeen[r][2]>>
    /\ (/\ regLast.op = "set"
        /\ regLast.pre.value # <<>>
        /\ regLast.now > regLast.pre.written)
       => /\ reg[regLast.self].value = regLast.pre.value
          /\ reg[regLast.self].written = regLast.pre.written

\* A merge met a different value written at the same time as the local one,
\* and the smaller value became visible.
C5_Witness ==
    /\ regLast.op = "merge"
    /\ regLast.pre.value # <<>>
    /\ regLast.other.value # <<>>
    /\ regLast.other.written = regLast.pre.written
    /\ regLast.other.value[1] < regLast.pre.value[1]
    /\ reg[regLast.self].value = regLast.other.value
    /\ regSeen[regLast.self] = <<regLast.other.written, regLast.other.value[1]>>

\* C6: a register value stored with expiry e survives cleanup(now) for every
\* now < e and is destroyed by cleanup(now) for every now >= e; the destroyed
\* register is exactly the empty state (None, i64::MAX, i64::MIN) and accepts
\* a subsequent set.
C6_ExpiryBoundary ==
    /\ regLast.op = "cleanup" =>
          IF regLast.now < regLast.pre.expires
          THEN reg[regLast.self] = regLast.pre
          ELSE reg[regLast.self] =
                  [value |-> <<>>, written |-> I64_MAX, expires |-> I64_MIN]
    /\ (/\ regLast.op = "set"
        /\ regLast.pre = [value |-> <<>>, written |-> I64_MAX, expires |-> I64_MIN])
       => reg[regLast.self] =
             [value |-> <<regLast.value>>, written |-> regLast.now,
              expires |-> regLast.expires]

\* A stored value was destroyed by a cleanup at exactly its expiry time.
C6_Witness ==
    /\ regLast.op = "cleanup"
    /\ regLast.pre.value # <<>>
    /\ regLast.now = regLast.pre.expires
    /\ reg[regLast.self].value = <<>>

\* ----------------------------------------------------- sized set claims

\* The replicas a one-entry insert seeds, in the wider bounds.
SizedSeeds == {o \in SizedPeers1 : MapLen(o) = 1}

SizedFold(x, y, z) ==
    SizedFWWExpiringSet_merge(SizedFWWExpiringSet_merge(x, sizedCap, y), sizedCap, z)

\* C3: for any three SizedFWWExpiringSet replicas of equal capacity, each
\* seeded by insert with disjoint entries at arbitrary written times, folding
\* the merges in any of the 6 orderings yields the identical final entry map.
\* (The set of the state is one replica; the two others hold one entry each.)
C3_SixOrderingsConverge ==
    (sizedSeeded /\ sized # EmptyMap /\ sizedCap >= 1) =>
        \A b, c \in SizedSeeds :
            (/\ DOMAIN b \cap DOMAIN sized = {}
             /\ DOMAIN c \cap DOMAIN sized = {}
             /\ DOMAIN b \cap DOMAIN c = {})
            => LET abc == SizedFold(sized, b, c)
               IN  /\ SizedFold(sized, c, b) = abc
                   /\ SizedFold(b, sized, c) = abc
                   /\ SizedFold(b, c, sized) = abc
                   /\ SizedFold(c, sized, b) = abc
                   /\ SizedFold(c, b, sized) = abc

\* Idempotence of merge over every pair of states drawn from S.
MergeIdempotentOn(S, merge(_, _)) ==
    \A x \in S :
        /\ merge(x, x) = x
        /\ \A y \in S : merge(merge(x, y), y) = merge(x, y)

RegStates ==
    {ExpiringFWWRegister_default} \cup
    [value : {<<v>> : v \in Values}, written : Time, expires : Time]

\* C4: merge is idempotent for every CRDT primitive (ExpiringFWWRegister,
\* GrowOnlySet, ExpiringSet, SizedFWWExpiringSet including at capacity,
\* CrdtMap with Lww and with Fww): merging a replica with a copy of itself
\* leaves its state unchanged, and merging the same peer twice gives the same
\* state as merging it once.
C4_MergeIdempotent ==
    /\ MergeIdempotentOn(RegStates, ExpiringFWWRegister_merge)
    /\ MergeIdempotentOn(SUBSET Values, GrowOnlySet_merge)
    /\ MergeIdempotentOn(Maps(Values, Time), ExpiringSet_merge)
    /\ MergeIdempotentOn(Maps(Values, Values \X Time), CrdtMap_merge_Lww)
    /\ MergeIdempotentOn(Maps(Values, Values \X Time), CrdtMap_merge_Fww)
    /\ SizedFWWExpiringSet_merge(sized, sizedCap, sized) = sized
    /\ \A o \in SizedPeers1 :
          LET once == SizedFWWExpiringSet_merge(sized, sizedCap, o)
          IN  SizedFWWExpiringSet_merge(once, sizedCap, o) = once

\* C7: for a SizedFWWExpiringSet created with new(capacity), the number of
\* members is <= capacity in every state reachable by any sequence of
\* insert, merge (with peers of any capacity and size) and cleanup.
C7_SizeWithinCapacity == MapLen(sized) <= sizedCap

\* A merge left the set full.
C7_Witness ==
    /\ sizedLast.op = "merge"
    /\ sizedCap >= 1
    /\ MapLen(sized) = sizedCap

\* The members of self that qualify for eviction by a peer entry (v, w).
Evictable(self, v, w) ==
    {k \in DOMAIN self : self[k][1] > w \/ (self[k][1] = w /\ k > v)}

\* C8: when merge meets a peer entry (v, w, e) absent from a set already at
\* capacity: if at least one member has written strictly greater than w (or
\* equal written and greater value), exactly one member is evicted, namely
\* the newest such member (greatest written), and v is admitted with (w, e);
\* if no member qualifies, v is dropped and the set is unchanged.
C8_EvictsNewestQualifying ==
    MapLen(sized) = sizedCap =>
        \A v \in SizedKeys(1) \ DOMAIN sized,
           w \in SizedWritten(1), e \in SizedExpires(1) :
            LET q == Evictable(sized, v, w)
                after == MergeEntry(sized, sizedCap, v, w, e)
            IN  IF q = {}
                THEN after = sized
                ELSE \E k \in q :
                        /\ \A j \in q : sized[j][1] <= sized[k][1]
                        /\ after = MapInsert(MapRemove(sized, k), v, <<w, e>>)

\* C9: insert of a key that is absent from a set already at capacity leaves
\* the set unchanged: the new key is not admitted, no member is evicted, and
\* the size does not grow.
C9_InsertAtCapacityDropped ==
    [][(/\ sizedLast'.op = "insert"
        /\ sizedLast'.key \notin DOMAIN sized
        /\ MapLen(sized) = sizedCap)
       => sized' = sized]_vars

\* An insert of a new key met a full set, which does not hold the key.
C9_Witness ==
    /\ sizedLast.op = "insert"
    /\ sizedLast.key \notin DOMAIN sized
    /\ sizedCap >= 1
    /\ MapLen(sized) = sizedCap

\* C10: after cleanup(now), the set contains exactly the previous members
\* whose expires is strictly greater than now, each with its entry unchanged
\* (so that a further cleanup at the same or a greater now removes nothing
\* that is still unexpired).
C10_CleanupKeepsUnexpired ==
    [][sizedLast'.op = "cleanup" =>
          /\ DOMAIN sized' = {k \in DOMAIN sized : sized[k][2] > sizedLast'.now}
          /\ \A k \in DOMAIN sized' : sized'[k] = sized[k]]_vars

\* A cleanup removed a member and kept one that expires on the next turn.
C10_Witness ==
    /\ sizedLast.op = "cleanup"
    /\ sizedLast.removed >= 1
    /\ \E k \in DOMAIN sized : sized[k][2] = sizedLast.now + 1

\* ------------------------------------------------------ ExpiringSet claims

\* C11: ExpiringSet.cleanup(now) drops the elements whose expiry has passed
\* and keeps the others: after cleanup(now) no element with expires < now
\* remains in the set, and every element with expires > now that was present
\* before the cleanup is still present.
C11_CleanupDropsExpired ==
    esetLast.op = "cleanup" =>
        /\ \A v \in DOMAIN eset : ~(eset[v] < esetLast.now)
        /\ \A v \in DOMAIN esetLast.pre :
              esetLast.pre[v] > esetLast.now => v \in DOMAIN eset

\* ----------------------------------------------------------- CrdtMap claims

\* The entry the policy prefers of two entries <<value, written>>.
Preferred(policy, x, y) ==
    IF policy = "Lww"
    THEN IF y[2] > x[2] \/ (y[2] = x[2] /\ y[1] > x[1]) THEN y ELSE x
    ELSE IF y[2] < x[2] \/ (y[2] = x[2] /\ y[1] < x[1]) THEN y ELSE x

\* C12: after a.merge(b) on a CrdtMap, every key held by a or b is in a; for
\* a key held by both, a holds the entry written later under Lww (earlier
\* under Fww), equal written times being resolved by value order (the
\* greater value under Lww, the smaller under Fww); a key held by one side
\* keeps that side's entry.  Hence merging replicas in any order yields the
\* same map.  (a is the map of the state and b any peer; in the last part
\* b and c are any two one-entry peers.)
C12_MergePerKeyPolicy ==
    /\ \A b \in CmapPeers :
          LET ab == CrdtMap_merge(cmapPolicy, cmap, b)
          IN  /\ DOMAIN ab = DOMAIN cmap \cup DOMAIN b
              /\ \A k \in DOMAIN ab :
                    ab[k] = IF k \in DOMAIN cmap /\ k \in DOMAIN b
                            THEN Preferred(cmapPolicy, cmap[k], b[k])
                            ELSE IF k \in DOMAIN cmap THEN cmap[k] ELSE b[k]
              /\ CrdtMap_merge(cmapPolicy, b, cmap) = ab
    /\ \A kb \in CmapKeys, eb \in Values \X Time :
          LET b == MapInsert(EmptyMap, kb, eb)
              ab == CrdtMap_merge(cmapPolicy, cmap, b)
          IN  \A kc \in kb..MaxMapKey, ec \in Values \X Time :
                LET c == MapInsert(EmptyMap, kc, ec)
                IN  CrdtMap_merge(cmapPolicy, ab, c)
                      = CrdtMap_merge(cmapPolicy, CrdtMap_merge(cmapPolicy, cmap, c), b)

\* A Lww merge met a key of the map with the same written time and another
\* value, and the map holds a second key.
C12_Witness ==
    /\ cmapLast.op = "merge"
    /\ cmapLast.tie
    /\ cmapPolicy = "Lww"
    /\ MapLen(cmap) = 2

\* ---------------------------------------------------- CrdtContainer claims

\* The first tagged field in S, or 0.
FirstFailing(S) ==
    IF \E i \in S : contTagged[i]
    THEN First({i \in S : contTagged[i]})
    ELSE 0

\* C13: the derived CrdtContainer merge merges the #[crdt] fields in
\* declared order and stops at the first field whose merge returns an error,
\* returning that error: tagged fields declared after the failing one are
\* left unchanged; fields not tagged #[crdt] are left unchanged by both merge
\* and cleanup; cleanup calls cleanup(now) on every tagged field.
C13_DerivedMergeAndCleanup ==
    [][LET l == contLast'
           self == cont[l.self]
           after == cont'[l.self]
           other == cont[l.other]
           f == FirstFailing(l.failing)
       IN  /\ l.op = "merge" =>
                /\ l.result = f
                /\ l.calls = SelectSeq([i \in ContFields |-> i],
                                       LAMBDA i : contTagged[i] /\ (f = 0 \/ i <= f))
                /\ \A i \in ContFields :
                      IF ~contTagged[i] \/ (f # 0 /\ i > f)
                      THEN after[i] = self[i]
                      ELSE IF i = f
                      THEN after[i] \in {self[i], ExpiringFWWRegister_merge(self[i], other[i])}
                      ELSE after[i] = ExpiringFWWRegister_merge(self[i], other[i])
           /\ l.op = "cleanup" =>
                \A i \in ContFields :
                    after[i] = IF contTagged[i]
                               THEN ExpiringFWWRegister_cleanup(self[i], l.now)
                               ELSE self[i]]_vars

\* A merge failed on the first of two tagged fields; the second, which the
\* peer would have changed, is as it was.
C13_Witness ==
    /\ contLast.op = "merge"
    /\ contLast.result = 1
    /\ contLast.calls = <<1>>
    /\ contTagged[2]
    /\ ExpiringFWWRegister_merge(cont[contLast.self][2], cont[contLast.other][2])
          # cont[contLast.self][2]

\* -------------------------------------------------- Component::step claims

RECURSIVE MergeAll(_, _)
MergeAll(b, others) ==
    IF others = <<>> THEN b
    ELSE MergeAll(ExpiringFWWRegister_merge(b, Head(others)), Tail(others))

\* C14: in the gossip phase of Component::step the agent's broadcast state
\* becomes its previous state merged with exactly the payloads of the
\* visible creatures that share the agent's faction, expose a payload and
\* decode successfully, followed by exactly one cleanup(turn) applied after
\* all merges; a peer of another faction is never merged and an undecodable
\* payload is skipped.
C14_GossipMergesEligiblePeers ==
    stepLast.op = "step" =>
        LET previous == IF stepLast.loaded # <<>> THEN stepLast.loaded[1]
                        ELSE ExpiringFWWRegister_default
            expected == ExpiringFWWRegister_cleanup(
                            MergeAll(previous, stepLast.eligible), stepLast.turn)
        IN  /\ stepStore = Serialize(expected)
            /\ stepPublished = <<Serialize(expected)>>

\* A step merged one payload and passed over another creature, and the
\* merged value is still held after the cleanup.
C14_Witness ==
    /\ stepLast.op = "step"
    /\ Len(stepLast.eligible) >= 1
    /\ stepLast.skipped >= 1
    /\ stepStore.valid
    /\ stepStore.state.value # <<>>

\* C15: Component::step always completes the turn: it returns a command,
\* exposes the re-serialized broadcast state and persists the memory,
\* whether the persisted memory fails to decode (default state is used), a
\* peer payload fails to decode (that peer is skipped), or a peer merge
\* returns an error (further merges of that turn are aborted but the turn is
\* not stalled).
C15_StepAlwaysCompletes ==
    stepLast.op = "step" =>
        /\ stepLast.outcome = "command"
        /\ stepStore.valid
        /\ stepPublished = <<stepStore>>

\* ------------------------------------------------------------ gossip claims

GossipAgreed == \A i, j \in Agents : gState[i] = gState[j]

\* C16: gossip converges: for a group of same-faction agents that make no
\* further local writes and hold only unexpired data, if every pair of
\* agents is connected by a path of visibility edges that recurs over time,
\* then eventually all agents hold identical broadcast state, for each CRDT
\* primitive (ExpiringFWWRegister, GrowOnlySet, ExpiringSet,
\* SizedFWWExpiringSet, CrdtMap), regardless of the order in which peers are
\* merged.
C16_GossipConverges == <>[]GossipAgreed

\* The agents agree on a state that neither end of the line started with.
C16_Witness ==
    /\ GossipAgreed
    /\ gState["a"] # gInit["a"]
    /\ gState["c"] # gInit["c"]
    /\ gInit["a"] # gInit["c"]
    /\ gKind = "sized"
    /\ MapLen(gState["a"]) = MaxCap

\* ----------------------------------------------------- ExplorableMap claims

\* C17: after ExplorableMap.update, every currently visible tile (passable
\* or not) has an entry stamped with the current turn in both the
\* passability map and the last-seen-item map of the current level.
C17_VisibleTilesStamped ==
    emLast.op = "update" =>
        \A i \in DOMAIN emLast.tiles :
            LET loc == emLast.tiles[i].loc
                level == emMaps[emLast.level_id]
            IN  /\ loc \in DOMAIN level.map
                /\ level.map[loc][2] = emLast.now
                /\ loc \in DOMAIN level.seen_items
                /\ level.seen_items[loc][2] = emLast.now

\* C18: after update, no currently visible tile is in the frontier
\* (unexplored_locs), and every one of the 8 neighbours of a visible passable
\* tile that has no entry in the current level's passability map is in the
\* frontier, whatever the order in which the visible tiles are processed.
C18_FrontierAfterUpdate ==
    emLast.op = "update" =>
        \A i \in DOMAIN emLast.tiles :
            LET loc == emLast.tiles[i].loc
            IN  /\ loc \notin emUnexplored
                /\ emLast.tiles[i].passable =>
                      \A n \in Around(loc) \ {loc} :
                          n \notin DOMAIN emMaps[emLast.level_id].map
                              => n \in emUnexplored

\* An update saw a passable tile before its neighbour in the corridor: the
\* neighbour entered the frontier and left it again, and the cells beside
\* the corridor are in the frontier.
C18_Witness ==
    /\ emLast.op = "update"
    /\ Len(emLast.tiles) = 2
    /\ emLast.tiles[1].passable
    /\ <<0, 1>> \in emUnexplored
    /\ emLast.tiles[2].loc \notin emUnexplored

\* ------------------------------------------------------ move_towards claims

\* The cached path of the last call is out of date: its last element is not
\* the goal, or one of its waypoints is blocked or marked for avoidance.
CacheOutOfDate ==
    LET path == navLast.cached[1]
    IN  \/ LastLoc(path) # <<navLast.loc>>
        \/ \E i \in DOMAIN path : path[i] \in navLast.blocked \/ path[i] \in navLast.avoid

\* C19: when move_towards is called with a cached path whose last element
\* differs from the goal, or with a waypoint in the blocked or the avoid set,
\* the next step is taken from a fresh astar result from the actor's
\* location to the goal; otherwise it is taken from the cached path, which
\* is left unchanged but for that step.
C19_CacheRevalidated ==
    (navLast.op = "move_towards" /\ navLast.cached # <<>>) =>
        LET used == IF CacheOutOfDate
                    THEN Astar(navLoc, navLast.loc, WalledMap(navLast.walls),
                               navLast.blocked, navLast.avoid)
                    ELSE navLast.cached
        IN  /\ navLast.updated = used
            /\ IF used = <<>> \/ used[1] = <<>>
               THEN navPath = used /\ navLast.command = <<>>
               ELSE /\ navPath = <<Tail(used[1])>>
                    /\ navLast.walk => navLast.command = <<Head(used[1])>>

\* A call whose cached path ends at the goal and crosses an avoided cell:
\* the step is taken from a different, freshly computed path.
C19_Witness ==
    /\ navLast.op = "move_towards"
    /\ navLast.cached # <<>>
    /\ LastLoc(navLast.cached[1]) = <<navLast.loc>>
    /\ navLast.blocked = {}
    /\ \E i \in DOMAIN navLast.cached[1] : navLast.cached[1][i] \in navLast.avoid
    /\ navLast.updated # <<>>
    /\ navLast.updated # navLast.cached
    /\ navLast.command # <<>>

\* ------------------------------------------------------------- astar claims

\* C20: every path returned by astar is a valid route: it excludes the
\* current location, its first element is 8-adjacent to the current
\* location, consecutive elements are 8-adjacent, its last element is the
\* goal, and no step of it is in the hard-blocked set or recorded as
\* impassable in the map (cells with no map data count as passable).
C20_PathIsValidRoute ==
    (astarOut # <<>> /\ astarOut[1] # <<>> /\ astarOut[1][1] # <<>>) =>
        LET path == astarOut[1][1]
        IN  /\ \A i \in DOMAIN path : path[i] # astarIn.current_location
            /\ Adjacent8(astarIn.current_location, path[1])
            /\ \A i \in 1..(Len(path) - 1) : Adjacent8(path[i], path[i + 1])
            /\ path[Len(path)] = astarIn.goal
            /\ \A i \in DOMAIN path :
                  /\ path[i] \notin astarIn.blocked
                  /\ (path[i] \in DOMAIN astarIn.explored_tiles =>
                        astarIn.explored_tiles[path[i]])

\* The least number of steps of a route from current_location to goal: a
\* sequence of 8-adjacent moves ending at the goal, every cell entered before
\* the goal being passable or unknown in the map, not blocked and not in
\* excluded.  -1 when there is none.  Breadth first from the goal; seen holds
\* the cells within steps moves of the goal.
RECURSIVE RouteSearch(_, _, _, _, _, _, _)
RouteSearch(frontier, seen, steps, current_location, explored_tiles, blocked, excluded) ==
    IF current_location \in frontier THEN steps
    ELSE IF frontier = {} THEN -1
    ELSE LET next == {n \in UNION {Neighbours8(c) : c \in frontier} :
                        /\ n[1] \in CoordMin..CoordMax
                        /\ n[2] \in CoordMin..CoordMax
                        /\ n \notin seen
                        /\ Expandable(explored_tiles, blocked, n)
                        /\ n \notin excluded \ {current_location}}
         IN  RouteSearch(next, seen \cup next, steps + 1, current_location,
                         explored_tiles, blocked, excluded)

MinSteps(current_location, goal, explored_tiles, blocked, excluded) ==
    IF current_location = goal THEN 0
    ELSE IF goal \in excluded THEN -1
    ELSE RouteSearch({goal}, {goal}, 0, current_location, explored_tiles, blocked, excluded)

\* The call of astar that is followed step by step has returned Some(path).
SearchReturnedPath ==
    /\ searchOut[1] = "returned"
    /\ searchOut[2] # <<>>

SearchPath == searchOut[2][1]

\* The least number of steps of any route of that call, and of the routes
\* that enter no avoid cell.
SearchAnySteps ==
    MinSteps(searchIn.current_location, searchIn.goal, searchIn.explored_tiles,
             searchIn.blocked, {})

SearchFreeSteps ==
    MinSteps(searchIn.current_location, searchIn.goal, searchIn.explored_tiles,
             searchIn.blocked, searchIn.avoid)

\* C21: avoid cells are a soft cost: when routes exist and every one enters
\* an avoid cell, astar returns a route through avoid cells; when a route
\* that enters no avoid cell is as short as the shortest route, the returned
\* path contains no avoid cell.
C21_AvoidIsSoftCost ==
    searchOut[1] = "returned" =>
        /\ (SearchAnySteps # -1 /\ SearchFreeSteps = -1) =>
              /\ SearchReturnedPath
              /\ Crosses(SearchPath, searchIn.avoid)
        /\ (SearchFreeSteps # -1 /\ SearchFreeSteps = SearchAnySteps) =>
              /\ SearchReturnedPath
              /\ ~Crosses(SearchPath, searchIn.avoid)

\* C22: when no chain of expandable cells connects the goal to the current
\* location, the call of astar ends by returning None.
C22_NoRouteReturnsNone ==
    (searchOut # <<"running">> /\ SearchAnySteps = -1) =>
        searchOut = <<"returned", <<>>>>

\* The least number of steps of any route of the single call of astar.
AstarAnySteps ==
    MinSteps(astarIn.current_location, astarIn.goal, astarIn.explored_tiles,
             astarIn.blocked, {})

\* C23: with nothing blocked and nothing avoided, astar returns a route
\* with the least possible number of steps; from (0, 0) to (3, 0) on the
\* open arena it returns [(1, 0), (2, 0), (3, 0)].
C23_ShortestRoute ==
    (astarOut # <<>> /\ astarIn.blocked = {} /\ astarIn.avoid = {}) =>
        /\ AstarAnySteps # -1 =>
              /\ astarOut[1] # <<>>
              /\ Len(astarOut[1][1]) = AstarAnySteps
        /\ ( /\ astarIn.current_location = <<0, 0>>
             /\ astarIn.goal = <<3, 0>>
             /\ astarIn.explored_tiles = WalledMap({}) ) =>
              astarOut[1] = <<<< <<1, 0>>, <<2, 0>>, <<3, 0>> >>>>

\* C24: the target of a Walk command returned by move_towards is never a
\* tile that the level map records as impassable when the command is
\* returned, also when the step comes from a path cached by an earlier call.
C24_WalkTargetPassable ==
    (navLast.op = "move_towards" /\ navLast.command # <<>>) =>
        navLast.command[1] \notin navLast.walls

\* C25: the target of a Walk command returned by move_towards is 8-adjacent
\* to the location of the actor, also after a commanded step that was not
\* carried out or a step popped while no Walk action was available.
C25_WalkTargetAdjacent ==
    (navLast.op = "move_towards" /\ navLast.command # <<>>) =>
        Adjacent8(navLoc, navLast.command[1])

\* ------------------------------------------------- ExplorableMap and merge

\* C26: in every state reached by update and merge, no location of the
\* frontier (unexplored_locs) has an entry in the passability map of the
\* current level.
C26_FrontierHasNoMapEntry ==
    emLast.level_id \in DOMAIN emMaps =>
        emUnexplored \cap DOMAIN emMaps[emLast.level_id].map = {}

\* ----------------------------------------------- live data through gossip

\* C27: a gossip round never erases live local data of a register: when the
\* register loaded from the store holds a value with expires > turn, the
\* register persisted by the step, after the merges of the peers' registers
\* and cleanup(turn), still holds a value.
C27_GossipKeepsLiveValue ==
    ( /\ stepLast.op = "step"
      /\ stepLast.outcome = "command"
      /\ stepLast.loaded # <<>>
      /\ stepLast.loaded[1].value # <<>>
      /\ stepLast.loaded[1].expires > stepLast.turn ) =>
        /\ stepStore.valid
        /\ stepStore.state.value # <<>>

\* ------------------------------------- CrdtMap<_, _, Lww> on a local clock

\* now: the local clock at the last insert.  The agent writes with
\* get_game_state().turn, which never decreases; the written times a merged
\* peer holds are any times, ahead of the local clock included.
CmapClockNoOp == [op |-> "none", tie |-> FALSE, now |-> 0]

CmapClockInit ==
    /\ cmap = EmptyMap
    /\ cmapPolicy = "Lww"
    /\ cmapLast = CmapClockNoOp

\* self.map.insert(k, v, turn) at a turn not before the last one.
CmapWrite(k, v, now) ==
    /\ now >= cmapLast.now
    /\ cmap' = CrdtMap_insert(cmap, k, v, now)
    /\ cmapLast' = [op |-> "insert", tie |-> FALSE, now |-> now]
    /\ UNCHANGED cmapPolicy
    /\ UNCHANGED nonCmapVars

\* self.map.merge(&other.map) for the map of a peer.
CmapImport(other) ==
    /\ cmap' = CrdtMap_merge(cmapPolicy, cmap, other)
    /\ cmapLast' = [op |-> "merge", tie |-> FALSE, now |-> cmapLast.now]
    /\ UNCHANGED cmapPolicy
    /\ UNCHANGED nonCmapVars

\* get_game_state().turn over the local writes: before, at and after the
\* written times of the peers.
CmapTurns == 0..(MaxTime + 1)

CmapClockNext ==
    \/ \E k \in CmapKeys, v \in Values, now \in CmapTurns : CmapWrite(k, v, now)
    \/ \E other \in CmapPeers : CmapImport(other)

InitCmapClock == CmapClockInit /\ Idle("cmap")

\* One CrdtMap<_, _, Lww> written on a non-decreasing local clock and
\* merging the maps of peers whose clocks are anywhere.
SpecCmapClock == InitCmapClock /\ [][CmapClockNext]_vars

\* C28: a local write to a CrdtMap<_, _, Lww> respects the merge order:
\* insert(k, v, now) leaves the map as the merge of a replica holding only
\* k -> (v, now) would, and with a non-decreasing local clock and peers of
\* any clock no step of insert or merge lowers the written time stored for
\* a key.
C28_InsertRespectsMergeOrder ==
    [][ /\ \A k \in DOMAIN cmap :
              k \in DOMAIN cmap' /\ cmap'[k][2] >= cmap[k][2]
        /\ cmapLast'.op = "insert" =>
              \A k \in CmapKeys, v \in Values :
                  cmap' = CrdtMap_insert(cmap, k, v, cmapLast'.now) =>
                      cmap' = CrdtMap_merge_Lww(
                                  cmap, MapInsert(EmptyMap, k, <<v, cmapLast'.now>>))
      ]_vars

====
